---- MODULE Spec2Model ----
(***************************************************************************)
(* Model of QEMUController (src/QEMUController.py): the lifecycle          *)
(* operations get_vm_status / start_vm / stop_vm and the enumeration       *)
(* get_vms, run against an environment made of a process table (what       *)
(* pgrep sees and os.kill hits) and a libvirt daemon (what virsh sees).    *)
(* Every external command is one step; the environment and other callers  *)
(* may move between two steps of the same call.                            *)
(***************************************************************************)
EXTENDS Integers, Sequences, FiniteSets, TLC

\* ------------------------------------------------------------------ bounds
MaxPid == 2
MaxTimeout == 2
MaxEnv == 2
MaxLines == 2
MaxConfig == 2

\* --------------------------------------------------------------- constants
None == "None"
Callers == {1, 2}
Pids == 1..MaxPid
\* the endpoints callers pass: the direct-process sentinel and two daemon URIs
Uris == {"qemu", "qemu:///system", "qemu:///session"}
\* the daemon endpoint on which the domain is defined when libvirt owns the VM
DomUri == "qemu:///system"
\* states virsh domstate prints for a defined domain
DomStates == {"running", "shut off", "paused", "in shutdown"}
ActiveStates == {"running", "paused", "in shutdown"}

VARIABLES
    flatpak,            \* self.flatpak, read from the portal at construction
    libvirt_available,  \* self.libvirt_available, probed at construction
    owner,              \* which backend owns the VM: "qemu" or "libvirt"
    procs,              \* live pids whose command line matches qemu.*<name>
    domState,           \* libvirt state of the domain (owner = "libvirt")
    envSteps,           \* number of environment moves taken so far
    calls,              \* per caller: position and locals of its call
    default_uri,        \* self.default_uri, probed at construction
    libvirt_uri,        \* self.libvirt_uri, the configured endpoint
    doms,               \* per daemon endpoint and name: the domain's state
    lines,              \* the lines pgrep -fa qemu prints
    inv                 \* get_vms: its position, locals and result

vars == <<flatpak, libvirt_available, owner, procs, domState, envSteps, calls,
          default_uri, libvirt_uri, doms, lines, inv>>
world == <<owner, procs, domState>>
enum == <<default_uri, libvirt_uri, doms, lines, inv>>

\* ------------------------------------------------------- sequence helpers
RECURSIVE SortedSeq(_)
SortedSeq(S) ==
    IF S = {} THEN <<>>
    ELSE LET m == CHOOSE x \in S : \A y \in S : x <= y
         IN <<m>> \o SortedSeq(S \ {m})

\* ------------------------------------------------ external command results
\* _run_command: Popen object, or None when the program cannot be spawned
NoSpawn == [spawned |-> FALSE, exit |-> 1, out |-> <<>>]
NoCmd == [spawned |-> FALSE, exit |-> 0, out |-> <<>>]

run_command(exit, out) == [spawned |-> TRUE, exit |-> exit, out |-> out]

\* pgrep -f qemu.*<name>: one pid per line, exit 0 iff something matched
PgrepOutcomes ==
    { NoSpawn,
      run_command(IF procs = {} THEN 1 ELSE 0, SortedSeq(procs)) }

DomainExists(uri) == owner = "libvirt" /\ uri = DomUri

\* virsh -c <uri> domstate <name>: the state and a blank line, or an error
DomstateOutcomes(uri) ==
    { NoSpawn, run_command(1, <<>>) }
    \cup (IF DomainExists(uri)
          THEN { run_command(0, <<domState, "\n", "\n">>) }
          ELSE {})

\* ------------------------------------------------------- text conversions
Whitespace == {" ", "\n"}

RECURSIVE LStrip(_)
LStrip(s) ==
    IF s # <<>> /\ Head(s) \in Whitespace THEN LStrip(Tail(s)) ELSE s

RECURSIVE RStrip(_)
RStrip(s) ==
    IF s # <<>> /\ s[Len(s)] \in Whitespace
    THEN RStrip(SubSeq(s, 1, Len(s) - 1)) ELSE s

\* str.strip()
Strip(s) == RStrip(LStrip(s))

\* str.lower() on the words virsh prints
LowerWord(w) ==
    CASE w = "Running" -> "running"
      [] w = "Shut off" -> "shut off"
      [] w = "Paused" -> "paused"
      [] OTHER -> w

Lower(s) == [i \in 1..Len(s) |-> LowerWord(s[i])]

MapState_paused_unknown(state) ==
    IF state = <<"running">> THEN "Running"
    ELSE IF state \in {<<"shut off">>, <<"inactive">>, <<"suspended">>}
         THEN "Stopped"
         ELSE "Unknown"

\* the mapping of the domstate text to a status (lines 214-217)
MapState(state) ==
    IF state = <<"running">> THEN "Running"
    ELSE IF state \in {<<"shut off">>, <<"inactive">>, <<"paused">>, <<"suspended">>}
         THEN "Stopped"
         ELSE "Unknown"

\* ------------------------------------------------------------ get_vm_status
\* the command get_vm_status runs for this endpoint, with its possible results
StatusOutcomes(uri) ==
    IF uri = "qemu" THEN PgrepOutcomes
    ELSE IF libvirt_available THEN DomstateOutcomes(uri)
    ELSE { NoCmd }

qemu_status_nospawn_stopped(o) ==
    IF o.spawned /\ o.exit = 0 THEN "Running" ELSE "Stopped"

\* the "qemu" branch: pgrep's exit code decides, a failed spawn leaves the
\* initial Unknown (lines 181-196)
qemu_status(o) ==
    IF o.spawned
    THEN (IF o.exit = 0 THEN "Running" ELSE "Stopped")
    ELSE "Unknown"

backend_ignores_probe(uri) ==
    IF uri = "qemu" THEN "qemu" ELSE "libvirt"

\* which branch of get_vm_status an endpoint takes (lines 177, 199)
backend(uri) ==
    IF uri = "qemu" THEN "qemu"
    ELSE IF libvirt_available /\ uri # "qemu" THEN "libvirt"
    ELSE None

get_vm_status_uri_on_success(uri, o) ==
    IF backend(uri) = "qemu"
    THEN [status |-> qemu_status(o), type |-> "qemu", uri |-> None]
    ELSE IF backend(uri) = "libvirt"
    THEN [status |-> IF o.spawned /\ o.exit = 0
                     THEN MapState(Lower(Strip(o.out)))
                     ELSE "Unknown",
          type |-> "libvirt",
          uri |-> IF o.spawned /\ o.exit = 0 THEN uri ELSE None]
    ELSE [status |-> "Unknown", type |-> None, uri |-> None]

get_vm_status(uri, o) ==
    IF backend(uri) = "qemu"
    THEN [status |-> qemu_status(o), type |-> "qemu", uri |-> None]
    ELSE IF backend(uri) = "libvirt"
    THEN [status |-> IF o.spawned /\ o.exit = 0
                     THEN MapState(Lower(Strip(o.out)))
                     ELSE "Unknown",
          type |-> "libvirt", uri |-> uri]
    ELSE [status |-> "Unknown", type |-> None, uri |-> None]


\* ------------------------------------------------------------- call state
ZeroStatus == [status |-> "Unknown", type |-> None, uri |-> None]

IdleCall ==
    [pc |-> "idle", op |-> "none", uri |-> "qemu", force |-> FALSE,
     timeout |-> 0, status_info |-> ZeroStatus, pid |-> 0, elapsed |-> 0,
     log |-> <<>>, ret |-> FALSE, retSrc |-> 0, raised |-> FALSE,
     result |-> ZeroStatus, out |-> NoCmd, vm_config |-> <<>>, argv |-> <<>>]

\* one entry of the trace of external actions a call performed
\* (arg: the role of a status query, the signal of a kill)
Ev(op, arg, pid, res) == [op |-> op, arg |-> arg, pid |-> pid, res |-> res]
StatusEv(role, si) == Ev("status", role, 0, si.status)
CmdRes(o) == IF ~o.spawned THEN "nospawn" ELSE IF o.exit = 0 THEN "ok" ELSE "fail"

Logged(cl, e) == [cl EXCEPT !.log = Append(@, e)]
\* return v; src is the position in the log of the status query v was
\* computed from, 0 when v is a constant of the code
Return(cl, v, src) == [cl EXCEPT !.pc = "done", !.ret = v, !.retSrc = src]
Goto(cl, pc) == [cl EXCEPT !.pc = pc]

\* the exception leaves the call
Raise(cl) == [cl EXCEPT !.pc = "done", !.raised = TRUE]

\* lines 402-404: "except Exception as e: log.error(...); return False"
stop_vm_except(cl) == Return(cl, FALSE, 0)

\* ------------------------------------------------------ environment: virsh
\* virsh -c <uri> start|shutdown|destroy <name>; the daemon refuses a start
\* of an active domain and a stop of an inactive one
VirshOutcomes(sub, uri) ==
    { NoSpawn, run_command(1, <<>>) }
    \cup (IF DomainExists(uri)
             /\ (IF sub = "start" THEN domState \notin ActiveStates
                                  ELSE domState \in ActiveStates)
          THEN { run_command(0, <<>>) }
          ELSE {})

FreshPid == IF Pids \ procs = {} THEN {} ELSE {CHOOSE p \in Pids \ procs : TRUE}

\* what a virsh sub-command that exited 0 did to the domain
VirshEffect(sub, o) ==
    IF o.spawned /\ o.exit = 0
    THEN CASE sub = "start" ->
                /\ domState' = "running"
                /\ procs' = procs \cup FreshPid
           [] sub = "destroy" ->
                /\ domState' = "shut off"
                /\ procs' = {}
           [] OTHER -> UNCHANGED <<domState, procs>>
    ELSE UNCHANGED <<domState, procs>>

\* os.kill(pid, sig): ProcessLookupError when the pid is gone,
\* PermissionError when the process belongs to another user
KillOutcomes(pid) == IF pid \in procs THEN {"ok", "denied"} ELSE {"gone"}

KillEffect(pid, sig, res) ==
    IF res = "ok" /\ sig = "KILL"
    THEN /\ procs' = procs \ {pid}
         /\ domState' = IF owner = "libvirt" /\ procs \ {pid} = {}
                        THEN "shut off" ELSE domState
    ELSE UNCHANGED <<domState, procs>>

\* ----------------------------------------------------------------- stop_vm
stop_vm_dispatch_no_early(uri, si) ==
    IF uri # "qemu" /\ si.type = "libvirt" THEN "libvirt"
    ELSE IF uri = "qemu" /\ si.type = "qemu" THEN "qemu"
    ELSE "mismatch"

\* lines 314, 321, 363, 407: what stop_vm does with the first status
stop_vm_dispatch(uri, si) ==
    IF si.status = "Stopped" THEN "already"
    ELSE IF uri # "qemu" /\ si.type = "libvirt" THEN "libvirt"
    ELSE IF uri = "qemu" /\ si.type = "qemu" THEN "qemu"
    ELSE "mismatch"

escalate_unless_stopped(status) == status # "Stopped"

\* lines 347 and 391: escalate only when the status after the window is Running
escalate(status) == status = "Running"

StopEntry(c) ==
    /\ calls[c].pc = "stop_entry"
    /\ \E o \in StatusOutcomes(calls[c].uri) :
         LET si == get_vm_status(calls[c].uri, o)
             cl == [Logged(calls[c], StatusEv("first", si)) EXCEPT !.status_info = si]
             d  == stop_vm_dispatch(cl.uri, si)
         IN calls' = [calls EXCEPT ![c] =
                CASE d = "already"  -> Return(cl, TRUE, Len(cl.log))
                  [] d = "libvirt"  -> Goto(cl, "stop_lv_cmd")
                  [] d = "qemu"     -> Goto(cl, "stop_q_pgrep")
                  [] OTHER          -> Return(cl, FALSE, 0)]
    /\ UNCHANGED <<flatpak, libvirt_available, world, envSteps, enum>>

stop_cmd_graceful_only(force) == "shutdown"

\* lines 323-326: the sub-command of the first stop request
stop_cmd(force) == IF force THEN "destroy" ELSE "shutdown"

\* lines 376-381: the signal of the first stop request
stop_sig(force) == IF force THEN "KILL" ELSE "TERM"

\* lines 339 and 379: only a graceful stop waits and polls
after_request(force) == IF ~force THEN "poll" ELSE "settle"

\* lines 323-339: destroy (force) or shutdown
StopLvCmd(c) ==
    /\ calls[c].pc = "stop_lv_cmd"
    /\ LET sub == stop_cmd(calls[c].force)
       IN \E o \in VirshOutcomes(sub, calls[c].uri) :
            LET cl == Logged(calls[c], Ev(sub, "", 0, CmdRes(o)))
            IN /\ calls' = [calls EXCEPT ![c] =
                     IF ~o.spawned THEN Return(cl, FALSE, 0)
                     ELSE IF o.exit # 0 THEN Return(cl, FALSE, 0)
                     ELSE IF after_request(cl.force) = "poll"
                          THEN [Goto(cl, "stop_lv_poll") EXCEPT !.elapsed = 0]
                          ELSE Goto(cl, "stop_lv_settle")]
               /\ VirshEffect(sub, o)
    /\ UNCHANGED <<flatpak, libvirt_available, owner, envSteps, enum>>

in_window_inclusive(elapsed, timeout) == elapsed <= timeout

\* lines 341, 385: while time.time() - start_time < timeout
in_window(elapsed, timeout) == elapsed < timeout

\* lines 341-344: one turn of the polling loop
StopLvPoll(c) ==
    /\ calls[c].pc = "stop_lv_poll"
    /\ in_window(calls[c].elapsed, calls[c].timeout)
    /\ \E o \in StatusOutcomes(calls[c].uri) :
         LET si == get_vm_status(calls[c].uri, o)
             cl == Logged(calls[c], StatusEv("poll", si))
         IN IF si.status = "Stopped"
            THEN calls' = [calls EXCEPT ![c] = Return(cl, TRUE, Len(cl.log))]
            ELSE \E t \in (cl.elapsed + 1)..cl.timeout :
                   calls' = [calls EXCEPT ![c] = [cl EXCEPT !.elapsed = t]]
    /\ UNCHANGED <<flatpak, libvirt_available, world, envSteps, enum>>

\* lines 341, 347: the window is over, read the status once more
StopLvCheck(c) ==
    /\ calls[c].pc = "stop_lv_poll"
    /\ ~in_window(calls[c].elapsed, calls[c].timeout)
    /\ \E o \in StatusOutcomes(calls[c].uri) :
         LET si == get_vm_status(calls[c].uri, o)
             cl == Logged(calls[c], StatusEv("check", si))
         IN calls' = [calls EXCEPT ![c] =
                IF escalate(si.status) THEN Goto(cl, "stop_lv_escalate")
                ELSE Goto(cl, "stop_lv_settle")]
    /\ UNCHANGED <<flatpak, libvirt_available, world, envSteps, enum>>

\* lines 350-352: destroy, result not looked at
StopLvEscalate(c) ==
    /\ calls[c].pc = "stop_lv_escalate"
    /\ \E o \in VirshOutcomes("destroy", calls[c].uri) :
         /\ calls' = [calls EXCEPT ![c] =
               Goto(Logged(calls[c], Ev("destroy", "", 0, CmdRes(o))),
                    "stop_lv_settle")]
         /\ VirshEffect("destroy", o)
    /\ UNCHANGED <<flatpak, libvirt_available, owner, envSteps, enum>>

\* lines 354-355: settle delay, then the status that is returned
StopLvSettle(c) ==
    /\ calls[c].pc = "stop_lv_settle"
    /\ \E o \in StatusOutcomes(calls[c].uri) :
         LET si == get_vm_status(calls[c].uri, o)
             cl == Logged(calls[c], StatusEv("final", si))
         IN calls' = [calls EXCEPT ![c] =
                Return(cl, si.status = "Stopped", Len(cl.log))]
    /\ UNCHANGED <<flatpak, libvirt_available, world, envSteps, enum>>


\* line 374: pid = int(stdout.decode().strip()); ValueError unless the text
\* is exactly one number (0 stands for the ValueError)
ParsePid(out) == IF Len(out) = 1 THEN out[1] ELSE 0

StopQPgrep_vanished_false(c) ==
    /\ calls[c].pc = "stop_q_pgrep"
    /\ \E o \in PgrepOutcomes :
         LET cl == Logged(calls[c], Ev("pgrep", "", ParsePid(o.out), CmdRes(o)))
         IN calls' = [calls EXCEPT ![c] =
                IF ~o.spawned THEN Return(cl, FALSE, 0)
                ELSE IF o.exit # 0 THEN Return(cl, FALSE, 0)
                ELSE IF ParsePid(o.out) = 0 THEN stop_vm_except(cl)
                ELSE [Goto(cl, "stop_q_kill") EXCEPT !.pid = ParsePid(o.out)]]
    /\ UNCHANGED <<flatpak, libvirt_available, world, envSteps, enum>>

\* lines 366-374: look the process id up
StopQPgrep(c) ==
    /\ calls[c].pc = "stop_q_pgrep"
    /\ \E o \in PgrepOutcomes :
         LET cl == Logged(calls[c], Ev("pgrep", "", ParsePid(o.out), CmdRes(o)))
         IN calls' = [calls EXCEPT ![c] =
                IF ~o.spawned THEN Return(cl, FALSE, 0)
                ELSE IF o.exit # 0 THEN Return(cl, TRUE, 0)
                ELSE IF ParsePid(o.out) = 0 THEN stop_vm_except(cl)
                ELSE [Goto(cl, "stop_q_kill") EXCEPT !.pid = ParsePid(o.out)]]
    /\ UNCHANGED <<flatpak, libvirt_available, world, envSteps, enum>>

\* lines 376-381: SIGKILL (force) or SIGTERM
StopQKill(c) ==
    /\ calls[c].pc = "stop_q_kill"
    /\ LET sig == stop_sig(calls[c].force)
       IN \E res \in KillOutcomes(calls[c].pid) :
            LET cl == Logged(calls[c], Ev("kill", sig, calls[c].pid, res))
            IN /\ calls' = [calls EXCEPT ![c] =
                     IF res # "ok" THEN stop_vm_except(cl)
                     ELSE IF after_request(cl.force) = "poll"
                          THEN [Goto(cl, "stop_q_poll") EXCEPT !.elapsed = 0]
                          ELSE Goto(cl, "stop_q_settle")]
               /\ KillEffect(calls[c].pid, sig, res)
    /\ UNCHANGED <<flatpak, libvirt_available, owner, envSteps, enum>>

\* lines 385-388: one turn of the polling loop
StopQPoll(c) ==
    /\ calls[c].pc = "stop_q_poll"
    /\ in_window(calls[c].elapsed, calls[c].timeout)
    /\ \E o \in StatusOutcomes(calls[c].uri) :
         LET si == get_vm_status(calls[c].uri, o)
             cl == Logged(calls[c], StatusEv("poll", si))
         IN IF si.status = "Stopped"
            THEN calls' = [calls EXCEPT ![c] = Return(cl, TRUE, Len(cl.log))]
            ELSE \E t \in (cl.elapsed + 1)..cl.timeout :
                   calls' = [calls EXCEPT ![c] = [cl EXCEPT !.elapsed = t]]
    /\ UNCHANGED <<flatpak, libvirt_available, world, envSteps, enum>>

\* lines 385, 391: the window is over, read the status once more
StopQCheck(c) ==
    /\ calls[c].pc = "stop_q_poll"
    /\ ~in_window(calls[c].elapsed, calls[c].timeout)
    /\ \E o \in StatusOutcomes(calls[c].uri) :
         LET si == get_vm_status(calls[c].uri, o)
             cl == Logged(calls[c], StatusEv("check", si))
         IN calls' = [calls EXCEPT ![c] =
                IF escalate(si.status) THEN Goto(cl, "stop_q_escalate")
                ELSE Goto(cl, "stop_q_settle")]
    /\ UNCHANGED <<flatpak, libvirt_available, world, envSteps, enum>>

\* line 393: SIGKILL to the pid looked up at the beginning
StopQEscalate(c) ==
    /\ calls[c].pc = "stop_q_escalate"
    /\ \E res \in KillOutcomes(calls[c].pid) :
         LET cl == Logged(calls[c], Ev("kill", "KILL", calls[c].pid, res))
         IN /\ calls' = [calls EXCEPT ![c] =
                  IF res # "ok" THEN stop_vm_except(cl)
                  ELSE Goto(cl, "stop_q_settle")]
            /\ KillEffect(calls[c].pid, "KILL", res)
    /\ UNCHANGED <<flatpak, libvirt_available, owner, envSteps, enum>>

StopQSettle_stale(c) ==
    /\ calls[c].pc = "stop_q_settle"
    /\ calls' = [calls EXCEPT ![c] =
          Return(calls[c], calls[c].status_info.status = "Stopped", 1)]
    /\ UNCHANGED <<flatpak, libvirt_available, world, envSteps, enum>>

\* lines 396-399: settle delay, then the status that is returned
StopQSettle(c) ==
    /\ calls[c].pc = "stop_q_settle"
    /\ \E o \in StatusOutcomes(calls[c].uri) :
         LET si == get_vm_status(calls[c].uri, o)
             cl == Logged(calls[c], StatusEv("final", si))
         IN calls' = [calls EXCEPT ![c] =
                Return(cl, si.status = "Stopped", Len(cl.log))]
    /\ UNCHANGED <<flatpak, libvirt_available, world, envSteps, enum>>

\* ---------------------------------------------------------------- start_vm
start_vm_dispatch_no_early(uri, si) ==
    IF uri # "qemu" /\ libvirt_available THEN "libvirt"
    ELSE IF uri = "qemu" THEN "qemu"
    ELSE "invalid"

\* lines 242, 247, 266, 294: what start_vm does with the first status
start_vm_dispatch(uri, si) ==
    IF si.status = "Running" THEN "already"
    ELSE IF uri # "qemu" /\ libvirt_available THEN "libvirt"
    ELSE IF uri = "qemu" THEN "qemu"
    ELSE "invalid"

StartEntry(c) ==
    /\ calls[c].pc = "start_entry"
    /\ \E o \in StatusOutcomes(calls[c].uri) :
         LET si == get_vm_status(calls[c].uri, o)
             cl == [Logged(calls[c], StatusEv("first", si)) EXCEPT !.status_info = si]
             d  == start_vm_dispatch(cl.uri, si)
         IN calls' = [calls EXCEPT ![c] =
                CASE d = "already"  -> Return(cl, TRUE, Len(cl.log))
                  [] d = "libvirt"  -> Goto(cl, "start_lv_cmd")
                  [] d = "qemu"     -> Goto(cl, "start_q_spawn")
                  [] OTHER          -> Return(cl, FALSE, 0)]
    /\ UNCHANGED <<flatpak, libvirt_available, world, envSteps, enum>>

\* lines 249-260: virsh start
StartLvCmd(c) ==
    /\ calls[c].pc = "start_lv_cmd"
    /\ \E o \in VirshOutcomes("start", calls[c].uri) :
         LET cl == Logged(calls[c], Ev("start", "", 0, CmdRes(o)))
         IN /\ calls' = [calls EXCEPT ![c] =
                  IF ~o.spawned THEN Return(cl, FALSE, 0)
                  ELSE IF o.exit = 0 THEN Goto(cl, "start_settle")
                  ELSE Return(cl, FALSE, 0)]
            /\ VirshEffect("start", o)
    /\ UNCHANGED <<flatpak, libvirt_available, owner, envSteps, enum>>

\* ------------------------------------------------ the spawn command line
qemu_bin_path == "qemu-system-x86_64"
vm_name == "vm"

\* Python values a configuration may hold: booleans, integers, strings
PyBool(b) == [kind |-> "bool", b |-> b, n |-> 0, s |-> ""]
PyInt(n) == [kind |-> "int", b |-> FALSE, n |-> n, s |-> ""]
PyStr(s) == [kind |-> "str", b |-> FALSE, n |-> 0, s |-> s]

\* str(value)
str(value) ==
    CASE value.kind = "bool" -> (IF value.b THEN "True" ELSE "False")
      [] value.kind = "int" -> ToString(value.n)
      [] OTHER -> value.s

flag_tokens_any_bool(key, value) ==
    IF value.kind = "bool"
    THEN <<"-" \o key>>
    ELSE <<"-" \o key, str(value)>>

\* lines 274-277: a true boolean gives the bare flag, anything else a pair
flag_tokens(key, value) ==
    IF value.kind = "bool" /\ value.b
    THEN <<"-" \o key>>
    ELSE <<"-" \o key, str(value)>>

\* lines 269-277: the command start_vm builds
RECURSIVE config_tokens(_)
config_tokens(vm_config) ==
    IF vm_config = <<>> THEN <<>>
    ELSE flag_tokens(Head(vm_config).key, Head(vm_config).value)
         \o config_tokens(Tail(vm_config))

spawn_cmd(vm_config) ==
    <<qemu_bin_path, "-name", "guest=" \o vm_name>> \o config_tokens(vm_config)

\* lines 36-38: what _run_command hands to Popen
popen_argv(command) ==
    IF flatpak THEN <<"flatpak-spawn", "--host">> \o command ELSE command

\* the configurations a caller passes: up to MaxConfig entries, keys distinct
ConfigEntries ==
    { [key |-> "m", value |-> PyInt(2048)],
      [key |-> "enable-kvm", value |-> PyBool(TRUE)],
      [key |-> "snapshot", value |-> PyBool(FALSE)] }

Configs ==
    { cf \in UNION {[1..n -> ConfigEntries] : n \in 0..MaxConfig} :
        \A i, j \in DOMAIN cf : i # j => cf[i].key # cf[j].key }

\* lines 269-282: spawn the hypervisor binary in the background; the new
\* process may live on (it gets a fresh pid) or be gone at once
StartQSpawn(c) ==
    /\ calls[c].pc = "start_q_spawn"
    /\ \/ /\ calls' = [calls EXCEPT ![c] =
                Return([Logged(calls[c], Ev("spawn", "", 0, "nospawn"))
                          EXCEPT !.argv = popen_argv(spawn_cmd(calls[c].vm_config))],
                       FALSE, 0)]
          /\ UNCHANGED procs
       \/ \E P \in {{}, FreshPid} :
            /\ calls' = [calls EXCEPT ![c] =
                  Goto([Logged(calls[c], Ev("spawn", "", 0, "ok"))
                          EXCEPT !.argv = popen_argv(spawn_cmd(calls[c].vm_config))],
                       "start_settle")]
            /\ procs' = procs \cup P
    /\ UNCHANGED <<flatpak, libvirt_available, owner, domState, envSteps, enum>>

\* lines 255-256 and 285-288: settle delay, then the status that is returned
StartSettle(c) ==
    /\ calls[c].pc = "start_settle"
    /\ \E o \in StatusOutcomes(calls[c].uri) :
         LET si == get_vm_status(calls[c].uri, o)
             cl == Logged(calls[c], StatusEv("final", si))
         IN calls' = [calls EXCEPT ![c] =
                Return(cl, si.status = "Running", Len(cl.log))]
    /\ UNCHANGED <<flatpak, libvirt_available, world, envSteps, enum>>

\* ------------------------------------------------- get_vm_status as a call
StatusCall(c) ==
    /\ calls[c].pc = "status_entry"
    /\ \E o \in StatusOutcomes(calls[c].uri) :
         LET si == get_vm_status(calls[c].uri, o)
             cl == Logged(calls[c], StatusEv("first", si))
         IN calls' = [calls EXCEPT ![c] =
                [cl EXCEPT !.pc = "done", !.result = si, !.out = o]]
    /\ UNCHANGED <<flatpak, libvirt_available, world, envSteps, enum>>

\* ------------------------------------------------------------- environment
\* a matching process exits by itself (guest powered off, crashed, killed)
EnvExit ==
    /\ envSteps < MaxEnv
    /\ \E p \in procs :
         /\ procs' = procs \ {p}
         /\ domState' = IF owner = "libvirt" /\ procs \ {p} = {}
                        THEN "shut off" ELSE domState
    /\ envSteps' = envSteps + 1
    /\ UNCHANGED <<flatpak, libvirt_available, owner, calls, enum>>

\* somebody else starts the VM (or another process matching the pattern)
EnvSpawn ==
    /\ envSteps < MaxEnv
    /\ \E p \in Pids \ procs :
         /\ procs' = procs \cup {p}
         /\ domState' = IF owner = "libvirt" /\ domState \notin ActiveStates
                        THEN "running" ELSE domState
    /\ envSteps' = envSteps + 1
    /\ UNCHANGED <<flatpak, libvirt_available, owner, calls, enum>>

\* the domain is paused, resumed, or begins to shut down
EnvDomState ==
    /\ envSteps < MaxEnv
    /\ owner = "libvirt"
    /\ domState \in ActiveStates
    /\ \E s \in ActiveStates \ {domState} : domState' = s
    /\ envSteps' = envSteps + 1
    /\ UNCHANGED <<flatpak, libvirt_available, owner, procs, calls, enum>>

Env == EnvExit \/ EnvSpawn \/ EnvDomState

\* ------------------------------------------------------------ calls begin
Begin(c, op, uri, force, timeout) ==
    /\ calls[c].pc = "idle"
    /\ calls' = [calls EXCEPT ![c] =
          [IdleCall EXCEPT !.pc = op \o "_entry", !.op = op, !.uri = uri,
                           !.force = force, !.timeout = timeout]]
    /\ UNCHANGED <<flatpak, libvirt_available, world, envSteps, enum>>

BeginStatus(c) == \E uri \in Uris : Begin(c, "status", uri, FALSE, 0)
BeginStart(c) ==
    \E uri \in Uris, vm_config \in Configs :
        /\ calls[c].pc = "idle"
        /\ calls' = [calls EXCEPT ![c] =
              [IdleCall EXCEPT !.pc = "start_entry", !.op = "start",
                               !.uri = uri, !.vm_config = vm_config]]
        /\ UNCHANGED <<flatpak, libvirt_available, world, envSteps, enum>>
BeginStop(c) ==
    \E uri \in Uris, force \in BOOLEAN, timeout \in 0..MaxTimeout :
        Begin(c, "stop", uri, force, timeout)

NoInv == [pc |-> "idle", show_all |-> FALSE, conns |-> <<>>,
          libvirt |-> <<>>, qemu |-> <<>>, res |-> <<>>, scanned |-> FALSE]

\* the world the controller is constructed in
InitWorld ==
    /\ flatpak \in BOOLEAN
    /\ libvirt_available \in BOOLEAN
    /\ owner \in {"qemu", "libvirt"}
    /\ procs \in {{}, {1}}
    /\ domState \in DomStates
    /\ owner = "qemu" => domState = "shut off"
    /\ owner = "libvirt" => (domState \in ActiveStates <=> procs # {})
    /\ envSteps = 0

\* nothing is being enumerated
NoEnum ==
    /\ default_uri = None
    /\ libvirt_uri = None
    /\ doms = <<>>
    /\ lines = <<>>
    /\ inv = NoInv

Init ==
    /\ InitWorld
    /\ calls = [c \in Callers |-> IdleCall]
    /\ NoEnum

StopStep(c) ==
    \/ StopEntry(c) \/ StopLvCmd(c) \/ StopLvPoll(c) \/ StopLvCheck(c)
    \/ StopLvEscalate(c) \/ StopLvSettle(c)
    \/ StopQPgrep(c) \/ StopQKill(c) \/ StopQPoll(c) \/ StopQCheck(c)
    \/ StopQEscalate(c) \/ StopQSettle(c)

StartStep(c) ==
    \/ StartEntry(c) \/ StartLvCmd(c) \/ StartQSpawn(c) \/ StartSettle(c)

Step(c) == StopStep(c) \/ StartStep(c) \/ StatusCall(c)

\* one caller, any operation
Next ==
    \/ BeginStatus(1) \/ BeginStart(1) \/ BeginStop(1)
    \/ Step(1)
    \/ Env

Spec == Init /\ [][Next]_vars

\* two callers stop the same VM through the same endpoint, uncoordinated
BeginStopSame(c) ==
    \E uri \in Uris, force \in BOOLEAN, timeout \in 0..MaxTimeout :
        /\ \A d \in Callers : calls[d].pc # "idle" => calls[d].uri = uri
        /\ Begin(c, "stop", uri, force, timeout)

\* (the environment stays quiet: whatever happens to a call is the doing of
\* the call itself or of the other caller)
NextConc ==
    \/ \E c \in Callers : BeginStopSame(c)
    \/ \E c \in Callers : StopStep(c)

\* the launcher prefix plays no part in stop_vm
InitConc == Init /\ flatpak = FALSE

SpecConc == InitConc /\ [][NextConc]_vars

\* stop_vm alone, every step of a call that has begun is eventually taken:
\* the call is sequential code and each command it waits for returns
NextLive == BeginStop(1) \/ StopStep(1) \/ Env

SpecLive == Init /\ [][NextLive]_vars /\ WF_vars(StopStep(1))

\* get_vm_status alone, over everything virsh domstate may report
ReportedStates ==
    {"running", "idle", "paused", "in shutdown", "shut off", "crashed",
     "pmsuspended", "no state", "inactive", "suspended"}

InitStatus ==
    /\ flatpak \in BOOLEAN
    /\ libvirt_available \in BOOLEAN
    /\ owner \in {"qemu", "libvirt"}
    /\ procs \in {{}, {1}}
    /\ domState \in ReportedStates
    /\ envSteps = 0
    /\ calls = [c \in Callers |-> IdleCall]
    /\ NoEnum

NextStatus == BeginStatus(1) \/ StatusCall(1)

SpecStatus == InitStatus /\ [][NextStatus]_vars


\* ================================================================= get_vms
Names == {"A", "B"}
SystemUri == "qemu:///system"
SessionUri == "qemu:///session"
DaemonUris == {SystemUri, SessionUri}

\* lines 76-86: the deduplicated list of endpoints to visit
RECURSIVE Dedup(_, _)
Dedup(uris, acc) ==
    IF uris = <<>> THEN acc
    ELSE Dedup(Tail(uris),
               IF Head(uris) # None /\ \A i \in DOMAIN acc : acc[i] # Head(uris)
               THEN Append(acc, Head(uris)) ELSE acc)

get_all_connections_dups == <<SystemUri, SessionUri, default_uri>>

get_all_connections == Dedup(<<SystemUri, SessionUri, default_uri>>, <<>>)

\* line 106: libvirt_uri or default_uri when only one endpoint is asked for
connections(show_all) ==
    IF show_all THEN get_all_connections
    ELSE <<IF libvirt_uri # None THEN libvirt_uri ELSE default_uri>>

\* line 109: "if not uri: continue"
RECURSIVE SkipAbsent(_)
SkipAbsent(conns) ==
    IF conns # <<>> /\ Head(conns) = None THEN SkipAbsent(Tail(conns)) ELSE conns

\* virsh -c <uri> list [--inactive] --name: the names, then an empty line
NamesIn(uri, state) ==
    IF uri \in DaemonUris
    THEN {n \in Names : doms[uri][n] = state} ELSE {}

RECURSIVE NameLines(_)
NameLines(S) ==
    IF S = {} THEN <<"">>
    ELSE LET m == CHOOSE x \in S : \A y \in S : (x = "A" \/ y # "A")
         IN <<m>> \o NameLines(S \ {m})

ListOutcomes(uri, state) ==
    { NoSpawn, run_command(1, <<>>), run_command(0, NameLines(NamesIn(uri, state))) }

\* lines 120-122, 130-132: the non-blank lines become descriptors
RECURSIVE Descriptors(_, _)
Descriptors(out, status) ==
    IF out = <<>> THEN <<>>
    ELSE (IF Head(out) \notin {"", " "}
          THEN <<[name |-> Head(out), status |-> status]>> ELSE <<>>)
         \o Descriptors(Tail(out), status)

\* what one list command adds to the endpoint's list (lines 116-122, 126-132)
Listed(o, status) ==
    IF o.spawned /\ o.exit = 0 THEN Descriptors(o.out, status) ELSE <<>>

\* line 152: re.search(r'-name\\s+guest=([^,]+)', line) on a line of tokens:
\* "-name", a backslash, one or more "s", "guest=", then everything up to
\* the next comma; <<>> when the line does not match
RECURSIVE RunLen(_, _, _)
RunLen(line, i, tok) ==
    IF i <= Len(line) /\ (line[i] = tok) THEN 1 + RunLen(line, i + 1, tok) ELSE 0

RECURSIVE Capture(_, _)
Capture(line, i) ==
    IF i <= Len(line) /\ line[i] # ","
    THEN <<line[i]>> \o Capture(line, i + 1) ELSE <<>>

RECURSIVE Concat(_)
Concat(toks) == IF toks = <<>> THEN "" ELSE Head(toks) \o Concat(Tail(toks))

MatchAt(line, i) ==
    LET k == RunLen(line, i + 2, "s")
        g == i + 2 + k
    IN IF /\ line[i] = "-name"
          /\ i + 1 <= Len(line) /\ line[i + 1] = "\\"
          /\ k >= 1
          /\ g <= Len(line) /\ line[g] = "guest="
       THEN Capture(line, g + 1) ELSE <<>>

guest_name(line) ==
    LET hits == {i \in DOMAIN line : MatchAt(line, i) # <<>>}
    IN IF hits = {} THEN <<>>
       ELSE <<Concat(MatchAt(line, CHOOSE i \in hits : \A j \in hits : i <= j))>>

\* lines 145-148: the names of every VM listed under any endpoint
libvirt_vm_names(libvirt) ==
    UNION { {libvirt[j].vms[k].name : k \in DOMAIN libvirt[j].vms} :
            j \in DOMAIN libvirt }

unmanaged_any(name, names) == TRUE

\* line 156: only names libvirt does not manage are added
unmanaged(name, names) == name \notin names

\* -------------------------------------------------------- get_vms, by step
\* lines 101-106: start; without libvirt only the process scan is made
GetVmsBegin ==
    /\ inv.pc = "idle"
    /\ \E show_all \in BOOLEAN :
         LET conns == IF libvirt_available
                      THEN SkipAbsent(connections(show_all)) ELSE <<>>
         IN inv' = [NoInv EXCEPT !.show_all = show_all, !.conns = conns,
                                 !.pc = IF conns = <<>> THEN "scan"
                                        ELSE "list_running"]
    /\ UNCHANGED <<flatpak, libvirt_available, world, envSteps, calls,
                   default_uri, libvirt_uri, doms, lines>>

\* lines 112-122: the endpoint gets an empty list, then its running VMs
ListRunning ==
    /\ inv.pc = "list_running"
    /\ LET uri == Head(inv.conns)
       IN \E o \in ListOutcomes(uri, "running") :
            inv' = [inv EXCEPT
                      !.libvirt = Append(@, [uri |-> uri,
                                             vms |-> Listed(o, "Running")]),
                      !.res = Append(@, [running |-> CmdRes(o) = "ok",
                                         inactive |-> FALSE]),
                      !.pc = "list_inactive"]
    /\ UNCHANGED <<flatpak, libvirt_available, world, envSteps, calls,
                   default_uri, libvirt_uri, doms, lines>>

ListInactive_abort ==
    /\ inv.pc = "list_inactive"
    /\ LET uri == Head(inv.conns)
           n == Len(inv.libvirt)
       IN \E o \in ListOutcomes(uri, "shut off") :
            LET rest == IF CmdRes(o) = "ok"
                        THEN SkipAbsent(Tail(inv.conns)) ELSE <<>>
            IN inv' = [inv EXCEPT
                      !.libvirt[n].vms = @ \o Listed(o, "Stopped"),
                      !.res[n].inactive = (CmdRes(o) = "ok"),
                      !.conns = rest,
                      !.pc = IF rest = <<>> THEN "scan" ELSE "list_running"]
    /\ UNCHANGED <<flatpak, libvirt_available, world, envSteps, calls,
                   default_uri, libvirt_uri, doms, lines>>

\* lines 125-132: its inactive VMs, then on to the next endpoint
ListInactive ==
    /\ inv.pc = "list_inactive"
    /\ LET uri == Head(inv.conns)
           rest == SkipAbsent(Tail(inv.conns))
           n == Len(inv.libvirt)
       IN \E o \in ListOutcomes(uri, "shut off") :
            inv' = [inv EXCEPT
                      !.libvirt[n].vms = @ \o Listed(o, "Stopped"),
                      !.res[n].inactive = (CmdRes(o) = "ok"),
                      !.conns = rest,
                      !.pc = IF rest = <<>> THEN "scan" ELSE "list_running"]
    /\ UNCHANGED <<flatpak, libvirt_available, world, envSteps, calls,
                   default_uri, libvirt_uri, doms, lines>>

\* lines 150-157: the direct VMs found in the scanned lines
RECURSIVE ScanLines(_, _)
ScanLines(ls, names) ==
    IF ls = <<>> THEN <<>>
    ELSE LET m == guest_name(Head(ls))
         IN (IF m # <<>> /\ unmanaged(m[1], names)
             THEN <<[name |-> m[1], status |-> "Running"]>> ELSE <<>>)
            \o ScanLines(Tail(ls), names)

\* lines 138-161: pgrep -fa qemu, then the result is returned
Scan ==
    /\ inv.pc = "scan"
    /\ \/ inv' = [inv EXCEPT !.pc = "done"]
       \/ inv' = [inv EXCEPT !.pc = "done", !.scanned = TRUE,
                    !.qemu = ScanLines(lines, libvirt_vm_names(inv.libvirt))]
    /\ UNCHANGED <<flatpak, libvirt_available, world, envSteps, calls,
                   default_uri, libvirt_uri, doms, lines>>

\* the command lines pgrep -fa qemu can print, as tokens
ScanLineSet ==
    { <<"qemu-system-x86_64", " ", "-name", "\\", "s", "guest=", "A", ",",
        "debug-threads=on">>,
      <<"qemu-system-x86_64", " ", "-name", "\\", "s", "s", "guest=", "B">>,
      <<"qemu-system-x86_64", " ", "-name", " ", "guest=", "A", ",",
        "debug-threads=on">>,
      <<"qemu-img", " ", "convert">> }

LineSeqs == UNION {[1..n -> ScanLineSet] : n \in 0..MaxLines}

DomMaps == [Names -> {"absent", "running", "shut off"}]

\* the domains of each endpoint; the session endpoint holds at most "A"
DomWorlds ==
    {d \in [DaemonUris -> DomMaps] : d[SessionUri]["B"] = "absent"}

InitEnum ==
    /\ flatpak = FALSE
    /\ libvirt_available \in BOOLEAN
    /\ owner = "qemu" /\ procs = {} /\ domState = "shut off" /\ envSteps = 0
    /\ calls = [c \in Callers |-> IdleCall]
    /\ default_uri \in {None, SystemUri, "test:///default"}
    /\ libvirt_uri \in {None, SessionUri}
    /\ doms \in DomWorlds
    /\ lines \in LineSeqs
    /\ inv = NoInv

NextEnum == GetVmsBegin \/ ListRunning \/ ListInactive \/ Scan

SpecEnum == InitEnum /\ [][NextEnum]_vars

\* get_vms while the domains change state: between any two steps of the
\* call a domain may be started or shut down by someone else
EnvDomFlip ==
    /\ envSteps < MaxEnv
    /\ inv.pc # "done"
    /\ \E uri \in DaemonUris, n \in Names :
         /\ doms[uri][n] # "absent"
         /\ doms' = [doms EXCEPT ![uri][n] =
               IF @ = "running" THEN "shut off" ELSE "running"]
    /\ envSteps' = envSteps + 1
    /\ UNCHANGED <<flatpak, libvirt_available, world, calls,
                   default_uri, libvirt_uri, lines, inv>>

\* the process scan plays no part here: no process lines, no configured uri
InitEnumEnv == InitEnum /\ lines = <<>> /\ libvirt_uri = None

NextEnumEnv == NextEnum \/ EnvDomFlip

SpecEnumEnv == InitEnumEnv /\ [][NextEnumEnv]_vars

\* ============================================================== properties

Done(c, op) == calls[c].pc = "done" /\ calls[c].op = op
IsDaemonUri(uri) == uri # "qemu"

Mutating(e) == e.op \in {"start", "shutdown", "destroy", "kill", "spawn"}
Forced(e) == e.op = "destroy" \/ (e.op = "kill" /\ e.arg = "KILL")
IsStatus(e, role) == e.op = "status" /\ e.arg = role

CountEv(log, op) == Cardinality({i \in DOMAIN log : log[i].op = op})
MutIdx(log) == {i \in DOMAIN log : Mutating(log[i])}
LastMut(log) == IF MutIdx(log) = {} THEN 0
                ELSE CHOOSE i \in MutIdx(log) : \A j \in MutIdx(log) : j <= i

\* the status a call is after: Running for start_vm, Stopped for stop_vm
Target(op) == IF op = "start" THEN "Running" ELSE "Stopped"

\* C1: in a graceful stop of a VM first seen Running, whenever the status
\* read after the polling window is not Stopped, a forced action (destroy /
\* SIGKILL) follows before the call returns, and the returned boolean comes
\* from a status query made after that forced action.
C1_GracefulThenForced ==
    \A c \in Callers :
        (Done(c, "stop") /\ ~calls[c].force
            /\ calls[c].status_info.status = "Running") =>
            \A i \in DOMAIN calls[c].log :
                (IsStatus(calls[c].log[i], "check")
                    /\ calls[c].log[i].res # "Stopped") =>
                    \E j \in DOMAIN calls[c].log :
                        /\ j > i
                        /\ Forced(calls[c].log[j])
                        /\ calls[c].retSrc > j

\* C2: a stop_vm whose first status query reports Stopped returns True and
\* has issued nothing but that query: no shutdown, no destroy, no signal.
C2_StopIdempotent ==
    \A c \in Callers :
        (calls[c].op = "stop" /\ calls[c].status_info.status = "Stopped") =>
            /\ calls[c].pc = "done"
            /\ calls[c].ret = TRUE
            /\ ~calls[c].raised
            /\ Len(calls[c].log) = 1
            /\ IsStatus(calls[c].log[1], "first")

C2_Witness ==
    \E c \in Callers :
        /\ Done(c, "stop") /\ calls[c].status_info.status = "Stopped"
        /\ calls[c].force /\ IsDaemonUri(calls[c].uri) /\ calls[c].ret

\* C3: a start_vm whose first status query reports Running returns True and
\* has issued nothing but that query: no virsh start, no spawn.
C3_StartIdempotent ==
    \A c \in Callers :
        (calls[c].op = "start" /\ calls[c].status_info.status = "Running") =>
            /\ calls[c].pc = "done"
            /\ calls[c].ret = TRUE
            /\ ~calls[c].raised
            /\ Len(calls[c].log) = 1
            /\ IsStatus(calls[c].log[1], "first")

C3_Witness ==
    \E c \in Callers :
        /\ Done(c, "start") /\ calls[c].status_info.status = "Running"
        /\ calls[c].uri = "qemu" /\ calls[c].ret

\* C4: when the endpoint passed to stop_vm does not match the backend that
\* owns the VM (a running daemon VM seen Running through "qemu", or a direct
\* VM that a daemon endpoint cannot identify) and nothing but the call acts
\* on the VM, no stop command or signal of the call takes effect and the
\* call returns False.
Mismatch(c) ==
    \/ owner = "libvirt" /\ calls[c].uri = "qemu"
    \/ owner = "qemu" /\ IsDaemonUri(calls[c].uri)

SeenStatus(c) == IF calls[c].uri = "qemu" THEN "Running" ELSE "Unknown"

C4_BackendMismatch ==
    \A c \in Callers :
        (calls[c].op = "stop" /\ Mismatch(c) /\ envSteps = 0
            /\ calls[c].pc \notin {"idle", "stop_entry"}
            /\ calls[c].status_info.status = SeenStatus(c)) =>
            /\ \A i \in DOMAIN calls[c].log :
                  Mutating(calls[c].log[i]) => calls[c].log[i].res # "ok"
            /\ calls[c].pc = "done" => calls[c].ret = FALSE

\* C5 (as stated): whenever start_vm or stop_vm has issued a mutating
\* command (one that was actually run), the boolean it returns comes from a
\* status query made after the last such command.
C5_ReturnAfterCommand ==
    \A c \in Callers :
        (calls[c].pc = "done" /\ calls[c].op \in {"start", "stop"}
            /\ \E i \in MutIdx(calls[c].log) : calls[c].log[i].res # "nospawn") =>
            /\ calls[c].retSrc > LastMut(calls[c].log)
            /\ calls[c].log[calls[c].retSrc].op = "status"
            /\ calls[c].ret = (calls[c].log[calls[c].retSrc].res = Target(calls[c].op))

\* C5 (amended): whenever start_vm or stop_vm has issued a mutating command,
\* the boolean it returns either comes from a status query made after the
\* last such command, or is False returned right after a mutating command
\* that failed; it never reports the status read before the command.
C5_ReturnAfterCommandOrFailure ==
    \A c \in Callers :
        (calls[c].pc = "done" /\ calls[c].op \in {"start", "stop"}
            /\ MutIdx(calls[c].log) # {}) =>
            \/ /\ calls[c].retSrc > LastMut(calls[c].log)
               /\ calls[c].log[calls[c].retSrc].op = "status"
               /\ calls[c].ret = (calls[c].log[calls[c].retSrc].res = Target(calls[c].op))
            \/ /\ calls[c].retSrc = 0
               /\ calls[c].ret = FALSE
               /\ LastMut(calls[c].log) = Len(calls[c].log)
               /\ calls[c].log[Len(calls[c].log)].res # "ok"

C5_Witness ==
    \E c \in Callers :
        /\ Done(c, "stop") /\ calls[c].ret
        /\ calls[c].status_info.status = "Running"
        /\ Cardinality(MutIdx(calls[c].log)) = 2
        /\ IsStatus(calls[c].log[calls[c].retSrc], "final")

\* C6: with two uncoordinated stop_vm calls on the same endpoint that both
\* saw the VM Running, and a quiet environment, no call runs into a vanished
\* process because of the other, and a call whose last status observation
\* is Stopped returns True.
C6_ConcurrentStopsSafe ==
    (\A d \in Callers : calls[d].status_info.status = "Running") =>
    \A c \in Callers :
        /\ \A i \in DOMAIN calls[c].log :
              calls[c].log[i].op = "kill" => calls[c].log[i].res # "gone"
        /\ (Done(c, "stop") /\ calls[c].log # <<>>
              /\ calls[c].log[Len(calls[c].log)].op = "status"
              /\ calls[c].log[Len(calls[c].log)].res = "Stopped")
           => calls[c].ret = TRUE

\* C8: every status result has its uri set exactly when its type is libvirt
EndpointIffDaemon(r) == (r.uri # None) <=> (r.type = "libvirt")

C8_EndpointIffDaemon ==
    \A c \in Callers :
        /\ Done(c, "status") => EndpointIffDaemon(calls[c].result)
        /\ calls[c].pc \notin {"idle", "status_entry", "start_entry", "stop_entry"}
              /\ calls[c].op # "status"
           => EndpointIffDaemon(calls[c].status_info)

C8_Witness ==
    \E c \in Callers :
        /\ Done(c, "status")
        /\ calls[c].result.type = "libvirt"
        /\ calls[c].result.status = "Unknown"
        /\ calls[c].result.uri = calls[c].uri

\* C9: no call ends with an exception: get_vm_status ends with a status
\* result, start_vm and stop_vm with a boolean, whatever the commands did.
C9_NoExceptionEscapes ==
    \A c \in Callers :
        /\ ~calls[c].raised
        /\ calls[c].pc = "done" =>
              /\ calls[c].ret \in BOOLEAN
              /\ calls[c].result.status \in {"Running", "Stopped", "Unknown"}

C9_Witness ==
    \E c \in Callers :
        /\ Done(c, "stop") /\ ~calls[c].raised /\ calls[c].ret = FALSE
        /\ \E i \in DOMAIN calls[c].log :
              calls[c].log[i].op = "kill" /\ calls[c].log[i].res = "gone"

\* C10: a forced stop_vm on a daemon endpoint whose first status is Running
\* issues destroy exactly once and no shutdown, never polls (at most the
\* first and the final status query), and returns True exactly when the
\* status query made after the destroy reports Stopped.
C10_ForcedDaemonStop ==
    \A c \in Callers :
        (Done(c, "stop") /\ calls[c].force /\ IsDaemonUri(calls[c].uri)
            /\ calls[c].status_info.status = "Running") =>
            /\ CountEv(calls[c].log, "destroy") = 1
            /\ CountEv(calls[c].log, "shutdown") = 0
            /\ \A i \in DOMAIN calls[c].log :
                  ~IsStatus(calls[c].log[i], "poll")
                  /\ ~IsStatus(calls[c].log[i], "check")
            /\ CountEv(calls[c].log, "status") <= 2
            /\ calls[c].ret <=>
                  /\ Len(calls[c].log) = 3
                  /\ calls[c].log[2].op = "destroy"
                  /\ IsStatus(calls[c].log[3], "final")
                  /\ calls[c].log[3].res = "Stopped"

C10_Witness ==
    \E c \in Callers :
        /\ Done(c, "stop") /\ calls[c].force /\ IsDaemonUri(calls[c].uri)
        /\ calls[c].status_info.status = "Running"
        /\ calls[c].ret


\* C7: in every inventory get_vms returns, no name listed under any daemon
\* endpoint also appears among the direct VMs.
ManagedNames == libvirt_vm_names(inv.libvirt)

C7_Deduplicated ==
    inv.pc = "done" =>
        \A i \in DOMAIN inv.qemu : inv.qemu[i].name \notin ManagedNames

C7_Witness ==
    /\ inv.pc = "done"
    /\ inv.qemu # <<>>
    /\ ManagedNames # {}
    /\ Len(inv.qemu) < Len(lines)
    /\ \E i \in DOMAIN lines :
          /\ guest_name(lines[i]) # <<>>
          /\ guest_name(lines[i])[1] \in ManagedNames


\* C11: when virsh domstate exits 0, the reported state maps to Stopped for
\* shut off, inactive, paused and suspended, to Running for running, and
\* to Unknown for every other state.
ClaimedStatus(word) ==
    CASE word = "running" -> "Running"
      [] word = "shut off" -> "Stopped"
      [] word = "inactive" -> "Stopped"
      [] word = "paused" -> "Stopped"
      [] word = "suspended" -> "Stopped"
      [] OTHER -> "Unknown"

DomstateOk(c) ==
    /\ Done(c, "status") /\ calls[c].result.type = "libvirt"
    /\ calls[c].out.spawned /\ calls[c].out.exit = 0

C11_StatusMapping ==
    \A c \in Callers :
        DomstateOk(c) =>
            /\ calls[c].out.out[1] = domState
            /\ calls[c].result.status = ClaimedStatus(domState)

C11_Witness ==
    \E c \in Callers :
        /\ DomstateOk(c) /\ domState = "paused"
        /\ calls[c].result.status = "Stopped"

\* C12: get_vm_status(name, "qemu") has type qemu and no uri; its status is
\* Running when pgrep exits 0 (a process matches), Stopped when it exits
\* nonzero (none matches), Unknown when pgrep could not be run.
C12_DirectStatus ==
    \A c \in Callers :
        (Done(c, "status") /\ calls[c].uri = "qemu") =>
            /\ calls[c].result.type = "qemu"
            /\ calls[c].result.uri = None
            /\ calls[c].result.status =
                  IF ~calls[c].out.spawned THEN "Unknown"
                  ELSE IF calls[c].out.exit = 0 THEN "Running" ELSE "Stopped"
            /\ calls[c].out.spawned =>
                  ((calls[c].out.exit = 0) <=> (procs # {}))

C12_Witness ==
    \E c \in Callers :
        /\ Done(c, "status") /\ calls[c].uri = "qemu"
        /\ ~calls[c].out.spawned
        /\ calls[c].result.status = "Unknown"

\* C17: with the daemon unavailable and an endpoint other than "qemu",
\* get_vm_status returns the zero value (Unknown, no type, no uri), and
\* start_vm and stop_vm return False.
C17_DaemonUnavailable ==
    \A c \in Callers :
        (calls[c].pc = "done" /\ ~libvirt_available
            /\ IsDaemonUri(calls[c].uri)) =>
            /\ calls[c].op = "status" => calls[c].result = ZeroStatus
            /\ calls[c].op \in {"start", "stop"} =>
                  /\ calls[c].ret = FALSE
                  /\ calls[c].status_info = ZeroStatus

C17_Witness ==
    \E c \in Callers :
        /\ Done(c, "stop") /\ ~libvirt_available /\ IsDaemonUri(calls[c].uri)
        /\ owner = "libvirt" /\ domState = "running"
        /\ calls[c].ret = FALSE


\* ------------------------------------------------------- get_vms claims
GetVmsDone == inv.pc = "done"

\* the endpoints the code is said to visit, in order
ExpectedEndpoints(show_all) ==
    IF show_all
    THEN <<SystemUri, SessionUri>> \o
         (IF default_uri \notin {None, SystemUri, SessionUri}
          THEN <<default_uri>> ELSE <<>>)
    ELSE IF libvirt_uri # None THEN <<libvirt_uri>>
    ELSE IF default_uri # None THEN <<default_uri>>
    ELSE <<>>

\* the descriptors of the domains of one endpoint that are in one state
ExpectedList(uri, state, status) ==
    (IF "A" \in NamesIn(uri, state)
     THEN <<[name |-> "A", status |-> status]>> ELSE <<>>) \o
    (IF "B" \in NamesIn(uri, state)
     THEN <<[name |-> "B", status |-> status]>> ELSE <<>>)

ListFailed(j) ==
    ~inv.res[j].running \/ ~inv.res[j].inactive

AllEndpointsVisited ==
    /\ Len(inv.libvirt) = Len(ExpectedEndpoints(inv.show_all))
    /\ \A j \in DOMAIN inv.libvirt :
          inv.libvirt[j].uri = ExpectedEndpoints(inv.show_all)[j]

\* C13 as stated: a failure of either list command of an endpoint leaves
\* that endpoint's list empty, and every other endpoint is still
\* enumerated, unaltered.
C13_FailureLeavesEmpty ==
    (GetVmsDone /\ libvirt_available) =>
        /\ AllEndpointsVisited
        /\ \A j \in DOMAIN inv.libvirt :
              ListFailed(j) => inv.libvirt[j].vms = <<>>

\* C13 amended: a failed list command contributes no entries of its own
\* (the entries of the endpoint's other list command are kept), and every
\* endpoint is still visited and holds exactly what its successful list
\* commands reported.
C13_FailureIsolated ==
    (GetVmsDone /\ libvirt_available) =>
        /\ AllEndpointsVisited
        /\ \A j \in DOMAIN inv.libvirt :
              inv.libvirt[j].vms =
                 (IF inv.res[j].running
                  THEN ExpectedList(inv.libvirt[j].uri, "running", "Running")
                  ELSE <<>>) \o
                 (IF inv.res[j].inactive
                  THEN ExpectedList(inv.libvirt[j].uri, "shut off", "Stopped")
                  ELSE <<>>)

C13_Witness ==
    /\ GetVmsDone /\ libvirt_available /\ Len(inv.libvirt) = 3
    /\ inv.res[1].running /\ ~inv.res[1].inactive
    /\ Len(inv.libvirt[1].vms) = 1
    /\ NamesIn(SystemUri, "shut off") # {}
    /\ inv.res[2].running /\ inv.res[2].inactive
    /\ Len(inv.libvirt[2].vms) = 1


\* the first "-name guest=<value>" token of a line, as the claim reads it:
\* "-name", white space, "guest=", then the value up to the next comma
ClaimedAt(line, i) ==
    LET k == RunLen(line, i + 1, " ")
        g == i + 1 + k
    IN IF line[i] = "-name" /\ k >= 1 /\ g <= Len(line) /\ line[g] = "guest="
       THEN Capture(line, g + 1) ELSE <<>>

ClaimedGuest(line) ==
    LET hits == {i \in DOMAIN line : ClaimedAt(line, i) # <<>>}
    IN IF hits = {} THEN <<>>
       ELSE <<Concat(ClaimedAt(line, CHOOSE i \in hits : \A j \in hits : i <= j))>>

RECURSIVE ClaimedDirect(_, _)
ClaimedDirect(ls, managed) ==
    IF ls = <<>> THEN <<>>
    ELSE (IF ClaimedGuest(Head(ls)) # <<>>
             /\ ClaimedGuest(Head(ls))[1] \notin managed
          THEN <<[name |-> ClaimedGuest(Head(ls))[1], status |-> "Running"]>>
          ELSE <<>>) \o ClaimedDirect(Tail(ls), managed)

\* a command line as pgrep prints it for a process: no backslash in it
Ordinary(line) == \A i \in DOMAIN line : line[i] # "\\"

\* C14: when the process scan ran, the direct list holds, in scan order,
\* one Running entry for each line with a "-name guest=<value>" token whose
\* value (up to the next comma) is in no managed list, and nothing else.
C14_ScanExtraction ==
    (GetVmsDone /\ inv.scanned /\ \A i \in DOMAIN lines : Ordinary(lines[i])) =>
        inv.qemu = ClaimedDirect(lines, ManagedNames)


\* ------------------------------------------------------- start_vm claims
\* the command line the claim describes, for the configurations used here
RECURSIVE ClaimedFlags(_)
ClaimedFlags(cf) ==
    IF cf = <<>> THEN <<>>
    ELSE (CASE Head(cf).key = "m" -> <<"-m", "2048">>
            [] Head(cf).key = "enable-kvm" -> <<"-enable-kvm">>
            [] Head(cf).key = "snapshot" -> <<"-snapshot", "False">>)
         \o ClaimedFlags(Tail(cf))

ClaimedCommand(cf) ==
    <<"qemu-system-x86_64", "-name", "guest=vm">> \o ClaimedFlags(cf)

Spawned(c) ==
    /\ calls[c].op = "start"
    /\ \E i \in DOMAIN calls[c].log : calls[c].log[i].op = "spawn"

\* C15 as stated: on the "qemu" path start_vm of a VM that is not running
\* spawns exactly <binary> -name guest=<name>, then for each configuration
\* entry in order the bare -<key> for a true boolean and the pair
\* -<key> <str(value)> for any other value.
C15_SpawnCommand ==
    \A c \in Callers :
        Spawned(c) => calls[c].argv = ClaimedCommand(calls[c].vm_config)

\* C15 amended: the command is the one above, prefixed with the launcher
\* tokens flatpak-spawn --host when the controller runs inside Flatpak; and
\* a start_vm on the "qemu" path that saw a status other than Running
\* always spawns.
C15_SpawnCommandOnHost ==
    \A c \in Callers :
        /\ Spawned(c) =>
              calls[c].argv =
                 (IF flatpak THEN <<"flatpak-spawn", "--host">> ELSE <<>>)
                 \o ClaimedCommand(calls[c].vm_config)
        /\ (Done(c, "start") /\ calls[c].uri = "qemu"
              /\ calls[c].status_info.status # "Running") => Spawned(c)
        /\ Spawned(c) =>
              calls[c].uri = "qemu" /\ calls[c].status_info.status # "Running"

C15_Witness ==
    \E c \in Callers :
        /\ Spawned(c) /\ flatpak
        /\ Len(calls[c].vm_config) = 2
        /\ calls[c].vm_config[1].key = "snapshot"
        /\ calls[c].vm_config[2].key = "enable-kvm"
        /\ calls[c].argv = <<"flatpak-spawn", "--host", "qemu-system-x86_64",
                             "-name", "guest=vm", "-snapshot", "False",
                             "-enable-kvm">>


\* ------------------------------------------------ direct-path stop claims
Vanished(c) ==
    /\ Done(c, "stop") /\ calls[c].uri = "qemu"
    /\ calls[c].status_info.status # "Stopped"
    /\ \E i \in DOMAIN calls[c].log :
          calls[c].log[i].op = "pgrep" /\ calls[c].log[i].res = "fail"

\* C16: when stop_vm on the "qemu" path saw a status other than Stopped and
\* the process-id search that follows finds no process, stop_vm returns True
\* and sends no signal.
C16_VanishedIsSuccess ==
    \A c \in Callers :
        Vanished(c) =>
            /\ calls[c].ret = TRUE
            /\ \A i \in DOMAIN calls[c].log : calls[c].log[i].op # "kill"
            /\ calls[c].log[Len(calls[c].log)].op = "pgrep"

C16_Witness ==
    \E c \in Callers :
        /\ Vanished(c) /\ calls[c].status_info.status = "Running"
        /\ procs = {} /\ envSteps = 1 /\ calls[c].ret = TRUE


\* ------------------------------------------------------ termination claim
RoleIdx(log, role) == {i \in DOMAIN log : IsStatus(log[i], role)}

\* the polling loop made at most timeout iterations, none when timeout is 0,
\* and after it came at most one status check, one escalation and one final
\* status query, in this order
BoundedStop(c) ==
    LET log == calls[c].log
        polls == RoleIdx(log, "poll")
        checks == RoleIdx(log, "check")
        finals == RoleIdx(log, "final")
        forced == {i \in DOMAIN log : Forced(log[i]) /\ \E j \in checks : j < i}
    IN /\ Cardinality(polls) <= calls[c].timeout
       /\ calls[c].force => polls = {} /\ checks = {}
       /\ Cardinality(checks) <= 1
       /\ Cardinality(forced) <= 1
       /\ Cardinality(finals) <= 1
       /\ \A i \in polls, j \in checks : i < j
       /\ \A i \in checks, j \in forced : j = i + 1
       /\ \A j \in finals : j = Len(log) /\ calls[c].pc = "done"

\* C18: every stop_vm call eventually returns a boolean; its polling loop
\* runs only while the elapsed time is below timeout (not at all when
\* timeout is 0) and is followed by at most one escalation and one final
\* status query.
C18_StopTerminates ==
    /\ [](\A c \in Callers : calls[c].op = "stop" => BoundedStop(c))
    /\ \A c \in {1} :
          (calls[c].op = "stop") ~>
              (calls[c].pc = "done" /\ calls[c].ret \in BOOLEAN)

C18_Witness ==
    \E c \in Callers :
        /\ Done(c, "stop") /\ calls[c].timeout = MaxTimeout
        /\ Cardinality(RoleIdx(calls[c].log, "poll")) = MaxTimeout
        /\ \E i \in DOMAIN calls[c].log :
              Forced(calls[c].log[i]) /\ i > 1
                 /\ IsStatus(calls[c].log[i - 1], "check")
        /\ RoleIdx(calls[c].log, "final") # {}


\* ------------------------------------------------------ endpoint set claim
Queried == [j \in DOMAIN inv.libvirt |-> inv.libvirt[j].uri]

\* C19 as stated: with show_all_connections the endpoints queried are, in
\* order and without duplicates, qemu:///system, qemu:///session and the
\* probed default (skipped when absent); otherwise exactly one endpoint is
\* queried, the configured one or else the probed default.
C19_EndpointSet ==
    (GetVmsDone /\ libvirt_available) =>
        IF inv.show_all
        THEN Queried = ExpectedEndpoints(TRUE)
        ELSE /\ Len(Queried) = 1
             /\ Queried[1] = IF libvirt_uri # None THEN libvirt_uri
                             ELSE default_uri

\* C19 amended: as above, except that without show_all_connections no
\* endpoint at all is queried when neither a configured nor a probed
\* default endpoint exists.
C19_EndpointSetOrNone ==
    (GetVmsDone /\ libvirt_available) =>
        /\ Queried = ExpectedEndpoints(inv.show_all)
        /\ \A i, j \in DOMAIN Queried : i # j => Queried[i] # Queried[j]
        /\ \A i \in DOMAIN Queried : Queried[i] # None
        /\ ~inv.show_all => Len(Queried) =
              IF libvirt_uri = None /\ default_uri = None THEN 0 ELSE 1

C19_Witness ==
    /\ GetVmsDone /\ libvirt_available /\ inv.show_all
    /\ default_uri = SystemUri
    /\ Queried = <<SystemUri, SessionUri>>


\* ------------------------------------------------------ signal target claim
KillIdx(log) == {i \in DOMAIN log : log[i].op = "kill"}

\* C20: every signal stop_vm sends on the "qemu" path (SIGTERM, immediate
\* SIGKILL, SIGKILL on escalation) reaches a process that runs the VM when
\* the signal is delivered, whatever happened to the VM since the pid was
\* looked up.
C20_SignalsHitVm ==
    \A c \in Callers :
        \A i \in KillIdx(calls[c].log) :
            calls[c].log[i].res \in {"ok", "denied"}


\* ------------------------------------------------- escalation order claim
Graceful(e) == e.op = "shutdown" \/ (e.op = "kill" /\ e.arg = "TERM")
ForcedIdx(log) == {i \in DOMAIN log : Forced(log[i])}

\* C21: in a graceful stop_vm a forced action (virsh destroy or SIGKILL) is
\* issued at most once, only after the graceful request of the same call
\* succeeded, only after the polling window ended without a poll seeing
\* Stopped, and only right after the status query made after the window
\* reported Running; once a poll has seen Stopped no forced action is issued.
C21_EscalationOrder ==
    \A c \in Callers :
        (calls[c].op = "stop" /\ ~calls[c].force) =>
            LET log == calls[c].log
                F == ForcedIdx(log)
            IN /\ Cardinality(F) <= 1
               /\ \A i \in F :
                     /\ \E g \in 1..(i - 1) :
                           Graceful(log[g]) /\ log[g].res = "ok"
                     /\ ~in_window(calls[c].elapsed, calls[c].timeout)
                     /\ \A p \in RoleIdx(log, "poll") :
                           p < i /\ log[p].res # "Stopped"
                     /\ i > 1 /\ IsStatus(log[i - 1], "check")
                     /\ log[i - 1].res = "Running"
               /\ (\E p \in RoleIdx(log, "poll") : log[p].res = "Stopped")
                     => F = {}

C21_Witness ==
    \E c \in Callers :
        /\ Done(c, "stop") /\ ~calls[c].force /\ calls[c].timeout = MaxTimeout
        /\ Cardinality(ForcedIdx(calls[c].log)) = 1
        /\ Cardinality(RoleIdx(calls[c].log, "poll")) >= 1
        /\ calls[c].ret = TRUE


\* ------------------------------------------- enumeration under state change
Occurrences(vms, n) == Cardinality({k \in DOMAIN vms : vms[k].name = n})

\* C22: within one get_vms call, when both list commands of an endpoint
\* succeeded, every domain defined on that endpoint appears exactly once in
\* the endpoint's list, also when the domain changed state between the two
\* list commands.
C22_ListedExactlyOnce ==
    GetVmsDone =>
        \A j \in DOMAIN inv.libvirt :
            (inv.res[j].running /\ inv.res[j].inactive
                /\ inv.libvirt[j].uri \in DaemonUris) =>
                \A n \in Names :
                    doms[inv.libvirt[j].uri][n] # "absent" =>
                        Occurrences(inv.libvirt[j].vms, n) = 1

====
